---- MODULE Spec2Model ----
(***************************************************************************)
(* Job Hunter (src/job_hunter.py): poll the JSearch provider, filter,      *)
(* de-duplicate, persist into SQLite, e-mail a time-windowed digest; run   *)
(* once at start-up and then on an APScheduler interval trigger.           *)
(*                                                                         *)
(* Text is modelled as sequences of one-character strings, Python's None   *)
(* as the value None below, time as a wall clock counted in ticks of       *)
(* 1/TicksPerSecond second (datetime.now() has sub-second resolution, the  *)
(* stored timestamps are int() of it).                                     *)
(***************************************************************************)
EXTENDS Integers, Sequences, FiniteSets, TLC

\* ------------------------------------------------------------------ bounds
TicksPerSecond == 2      \* clock resolution of the model
MaxHours == 3            \* the clock advances at most this many hours
MaxSubTicks == 1         \* ... plus at most this many ticks
MaxConns == 2            \* connections the process may hold open at once
NumSlots == 2            \* threads that could execute a run at the same time
T0 == 36000              \* epoch second at which the model starts (10h)
MAX_RESULTS_PER_RUN == 1 \* env MAX_RESULTS_PER_RUN, scaled to the size of the table

\* ------------------------------------------------- configuration (lines 34-61)
SecondsPerHour == 3600
RUN_EVERY_HOURS == 2
MAX_POST_AGE_HOURS == 6
PAGES_PER_QUERY == 2
INCLUDE_REMOTE == TRUE
\* add_job with max_instances=2
MaxInstances_Two == 1 + 1
\* APScheduler's job default, in force because add_job passes no max_instances
MaxInstances == 1

None == <<"<None>">>

ROLE_KEYWORDS == << <<"d", "e", "v">> >>
SKILL_KEYWORDS == << <<"p", "y">> >>
EXP_KEYWORDS == << <<"j", "r">> >>
Remote == <<"R", "e", "m", "o", "t", "e">>
\* as in the default list, "Remote" is among the configured locations
LOCATIONS == << Remote >>

\* ------------------------------------------------------------ Python values
\* bool(x) for the values the model uses: None, "" and 0 are falsy
Truthy(x) == x # None /\ x # <<>>
\* a or b
Or(a, b) == IF Truthy(a) THEN a ELSE b

IsSpace(c) == c = " "
RECURSIVE LStrip(_)
LStrip(s) == IF s # <<>> /\ IsSpace(Head(s)) THEN LStrip(Tail(s)) ELSE s
RECURSIVE RStrip(_)
RStrip(s) ==
  IF s # <<>> /\ IsSpace(s[Len(s)]) THEN RStrip(SubSeq(s, 1, Len(s) - 1)) ELSE s
\* str.strip()
Strip(s) == RStrip(LStrip(s))

LowerChar(c) ==
  CASE c = "D" -> "d"
    [] c = "P" -> "p"
    [] c = "J" -> "j"
    [] c = "Y" -> "y"
    [] c = "R" -> "r"
    [] c = "I" -> "i"
    [] OTHER -> c
\* str.lower()
Lower(s) == [i \in 1..Len(s) |-> LowerChar(s[i])]

\* kw in text
Contains(text, kw) ==
  \E i \in 0..(Len(text) - Len(kw)) : SubSeq(text, i + 1, i + Len(kw)) = kw

RECURSIVE Join(_, _)
\* sep.join(parts)
Join(sep, parts) ==
  IF parts = <<>> THEN <<>>
  ELSE IF Len(parts) = 1 THEN parts[1]
  ELSE parts[1] \o sep \o Join(sep, Tail(parts))

\* ------------------------------------------------- provider items (JSearch)
\* job_posted_at_timestamp as the provider may send it: absent, a number, or a
\* string int() cannot coerce
TsNone == [k |-> "none", v |-> 0]
TsInt(n) == [k |-> "int", v |-> n]
TsBad == [k |-> "str", v |-> 0]

\* posting times: Tp1 is older than MAX_POST_AGE_HOURS from the second hour
\* of the model on, Tp2 stays recent through the last one
Tp1 == T0 - 5 * SecondsPerHour
Tp2 == T0 - (MAX_POST_AGE_HOURS - MaxHours) * SecondsPerHour

NoItem ==
  [job_id |-> None, job_posting_id |-> None, id |-> None,
   job_title |-> None, title |-> None,
   employer_name |-> None, company_name |-> None,
   job_city |-> None, job_location |-> None, job_country |-> None,
   job_state |-> None, job_is_remote |-> FALSE,
   job_description |-> None, description |-> None,
   job_apply_link |-> None, job_google_link |-> None,
   job_posted_at_timestamp |-> TsNone]

\* "Dev" at "c" in "In", external id "a"
ItemA ==
  [NoItem EXCEPT !.job_id = <<"a">>, !.job_title = <<" ", "D", "e", "v", " ">>,
                 !.employer_name = <<"c">>, !.job_city = <<"I", "n">>,
                 !.job_description = <<"p", "y", " ", "j", "r">>,
                 !.job_apply_link = <<"u">>,
                 !.job_posted_at_timestamp = TsInt(Tp2)]
\* the same external id under another field name, other title; matches the
\* experience filter through the regular expression only
ItemA2 ==
  [NoItem EXCEPT !.job_posting_id = <<"a">>, !.title = <<"d", "e", "v", "2">>,
                 !.company_name = <<"c">>, !.job_location = <<"I", "n">>,
                 !.description = <<"P", "Y", " ", "0", "+", " ", "y", "e", "a", "r", "s">>,
                 !.job_google_link = <<"u">>,
                 !.job_posted_at_timestamp = TsInt(Tp2)]
\* no identifier at all; the same title, company, location and url as ItemA
ItemN ==
  [NoItem EXCEPT !.job_title = <<"D", "e", "v">>,
                 !.employer_name = <<"c">>, !.job_country = <<"I", "n">>,
                 !.job_description = <<"J", "r", " ", "p", "y">>,
                 !.job_apply_link = <<"u">>,
                 !.job_posted_at_timestamp = TsInt(Tp1)]
\* names no skill
ItemF ==
  [NoItem EXCEPT !.id = <<"b">>, !.job_title = <<"D", "e", "v">>,
                 !.employer_name = <<"c">>, !.job_state = <<"I", "n">>,
                 !.job_description = <<"j", "r">>,
                 !.job_apply_link = <<"u">>,
                 !.job_posted_at_timestamp = TsInt(Tp2)]
\* remote job whose timestamp is not a number
ItemZ ==
  [NoItem EXCEPT !.job_id = <<"b">>, !.job_title = <<"d", "e", "v", "2">>,
                 !.employer_name = <<"c">>, !.job_is_remote = TRUE,
                 !.job_description = <<"p", "y", " ", "j", "r">>,
                 !.job_apply_link = <<"u">>,
                 !.job_posted_at_timestamp = TsBad]

\* resp.json(): the bodies the provider answers with (a key that is absent and
\* a key holding [] are the same to "or")
Responses ==
  { [data |-> <<>>, jobs |-> <<>>],
    [data |-> <<ItemF, ItemZ, ItemA>>, jobs |-> <<>>],
    [data |-> <<>>, jobs |-> <<ItemA2>>],
    [data |-> <<ItemN>>, jobs |-> <<>>] }

\* data.get("data") or data.get("jobs") or []
ItemsOf(data) ==
  IF data.data # <<>> THEN data.data
  ELSE IF data.jobs # <<>> THEN data.jobs
  ELSE <<>>

\* int(item.get("job_posted_at_timestamp")) guarded by truthiness and except
ParseTs(x) ==
  IF x.k = "none" \/ (x.k = "int" /\ x.v = 0) THEN 0
  ELSE IF x.k = "int" THEN x.v
  ELSE 0

parse_jsearch_item(item) ==
  LET job_id == Or(Or(item.job_id, item.job_posting_id), item.id)
      title == Strip(Or(Or(item.job_title, item.title), <<>>))
      company == Strip(Or(Or(item.employer_name, item.company_name), <<>>))
      location ==
        Strip(Or(Or(Or(Or(item.job_city, item.job_location), item.job_country),
                    item.job_state),
                 IF item.job_is_remote THEN Remote ELSE <<>>))
      desc == Strip(Or(Or(item.job_description, item.description), <<>>))
      url == Or(item.job_apply_link, Or(item.job_google_link, <<>>))
  IN [source |-> "jsearch",
      external_id |-> IF Truthy(job_id) THEN job_id ELSE None,
      title |-> title, company |-> company, location |-> location,
      description |-> desc, url |-> url,
      posted_at_utc |-> ParseTs(item.job_posted_at_timestamp)]

\* ---------------------------------------------------------- filtering helpers
contains_any(text, keywords) ==
  LET text_low == Lower(Or(text, <<>>))
  IN \E k \in 1..Len(keywords) : Contains(text_low, Lower(keywords[k]))

\* \w of the regular expressions, on the model's alphabet
IsWord(c) == c \notin {" ", "+", "-"}
\* \b between positions i and i+1 of t
Boundary(t, i) ==
  (i >= 1 /\ IsWord(t[i])) # (i + 1 <= Len(t) /\ IsWord(t[i + 1]))

\* re.search(r"\b0\+?\s*years?\b", t)
MatchZeroYears(t) ==
  \E i \in 1..Len(t) :
    /\ t[i] = "0"
    /\ Boundary(t, i - 1)
    /\ \E p \in {0, 1}, w \in 0..Len(t), s \in {0, 1} :
         LET j == i + p + w
         IN /\ j + 4 + s <= Len(t)
            /\ p = 1 => t[i + 1] = "+"
            /\ \A k \in 1..w : IsSpace(t[i + p + k])
            /\ SubSeq(t, j + 1, j + 4) = <<"y", "e", "a", "r">>
            /\ s = 1 => t[j + 5] = "s"
            /\ Boundary(t, j + 4 + s)

\* The nine patterns of experience_ok. Eight of them need one of the
\* characters 6, 1, f, l, x, which no text of the model holds; the ninth is
\* MatchZeroYears.
ExperiencePatterns(txt) == MatchZeroYears(txt)

experience_ok(text) ==
  IF contains_any(text, EXP_KEYWORDS) THEN TRUE
  ELSE ExperiencePatterns(Lower(Or(text, <<>>)))

role_ok(text) == contains_any(text, ROLE_KEYWORDS)

skills_ok(text) == contains_any(text, SKILL_KEYWORDS)

\* (now - posted_ts) / 3600.0 <= max_age_hours, now in ticks
posted_recent(posted_ts, max_age_hours, nowTicks) ==
  IF posted_ts = 0 THEN FALSE
  ELSE nowTicks - posted_ts * TicksPerSecond
         <= max_age_hours * SecondsPerHour * TicksPerSecond

\* int(datetime.now(timezone.utc).timestamp())
NowSeconds(nowTicks) == nowTicks \div TicksPerSecond

\* --------------------------------------------------------------- the store
\* UNIQUE INDEX uq_jobs_source_external ON jobs(source, external_id); SQL NULLs
\* never collide
uq_jobs_source_external(row, j) ==
  /\ row.external_id # None /\ j.external_id # None
  /\ row.source = j.source /\ row.external_id = j.external_id

\* the table without the fallback index
uq_jobs_fallback_Missing(row, j) == FALSE

\* UNIQUE INDEX uq_jobs_fallback ON jobs(title, company, location, url)
uq_jobs_fallback(row, j) ==
  /\ row.title # None /\ row.company # None /\ row.location # None /\ row.url # None
  /\ row.title = j.title /\ row.company = j.company
  /\ row.location = j.location /\ row.url = j.url

\* whether INSERT OR IGNORE ignores j
Conflicts(table, j) ==
  \E i \in 1..Len(table) :
    uq_jobs_source_external(table[i], j) \/ uq_jobs_fallback(table[i], j)

\* the row INSERT writes: AUTOINCREMENT id, created_at_utc = int(now)
NewRow(table, j, nowTicks) ==
  [id |-> Len(table) + 1, source |-> j.source, external_id |-> j.external_id,
   title |-> j.title, company |-> j.company, location |-> j.location,
   url |-> j.url, posted_at_utc |-> j.posted_at_utc,
   description |-> j.description, created_at_utc |-> NowSeconds(nowTicks)]

RECURSIVE SaveLoop(_, _, _, _, _, _)
\* the for loop of save_jobs from record i on; bad: the records whose execute
\* raises an exception other than IntegrityError (logged, skipped)
SaveLoop(table, jobs, i, nowTicks, bad, inserted) ==
  IF i > Len(jobs) THEN [table |-> table, inserted |-> inserted]
  ELSE IF i \in bad THEN SaveLoop(table, jobs, i + 1, nowTicks, bad, inserted)
  ELSE IF Conflicts(table, jobs[i])
    THEN SaveLoop(table, jobs, i + 1, nowTicks, bad, inserted)
  ELSE SaveLoop(Append(table, NewRow(table, jobs[i], nowTicks)), jobs, i + 1,
                nowTicks, bad, inserted + 1)

\* inserted += 1 after every execute, whatever cur.rowcount says
save_jobs_CountsExecutes(table, jobs, nowTicks, bad) ==
  [table |-> SaveLoop(table, jobs, 1, nowTicks, bad, 0).table,
   inserted |-> Len(jobs) - Cardinality(bad \cap (1..Len(jobs)))]

save_jobs(table, jobs, nowTicks, bad) == SaveLoop(table, jobs, 1, nowTicks, bad, 0)

Min(a, b) == IF a <= b THEN a ELSE b

\* the orders ORDER BY posted_at_utc DESC allows for the rows S of table (SQL
\* leaves the order of ties open)
Orderings(table, S) ==
  { o \in [1..Cardinality(S) -> S] :
      /\ \A a, b \in 1..Cardinality(S) : a # b => o[a] # o[b]
      /\ \A a \in 1..(Cardinality(S) - 1) :
           table[o[a]].posted_at_utc >= table[o[a + 1]].posted_at_utc }

\* LIMIT n (a negative n is no limit in SQLite)
Limit(rows, n) == IF n < 0 THEN rows ELSE SubSeq(rows, 1, Min(n, Len(rows)))

\* SELECT title, company, location, url, posted_at_utc
Selected(row) ==
  [title |-> row.title, company |-> row.company, location |-> row.location,
   url |-> row.url, posted_at_utc |-> row.posted_at_utc]

\* WHERE created_at_utc > since_ts
InWindow_Strict(row, since_ts) == row.created_at_utc > since_ts

\* WHERE created_at_utc >= since_ts
InWindow(row, since_ts) == row.created_at_utc >= since_ts

\* every result the query of fetch_unsent_jobs_since may return
fetch_unsent_jobs_since(table, since_ts) ==
  LET S == { i \in 1..Len(table) : InWindow(table[i], since_ts) }
  IN { Limit([a \in 1..Cardinality(S) |-> Selected(table[o[a]])],
             MAX_RESULTS_PER_RUN) : o \in Orderings(table, S) }

\* int((datetime.now(utc) - timedelta(hours=RUN_EVERY_HOURS)).timestamp())
SinceTs(nowTicks) ==
  (nowTicks - RUN_EVERY_HOURS * SecondsPerHour * TicksPerSecond) \div TicksPerSecond

\* ------------------------------------------------------ the run: pure parts
\* locations = LOCATIONS[:], plus "Remote" when INCLUDE_REMOTE and not in it
RunLocations ==
  IF INCLUDE_REMOTE /\ ~(\E i \in 1..Len(LOCATIONS) : LOCATIONS[i] = Remote)
  THEN Append(LOCATIONS, Remote) ELSE LOCATIONS

\* the (role, location, page) tuples in the order of the three nested loops
NumTuples == Len(ROLE_KEYWORDS) * Len(RunLocations) * PAGES_PER_QUERY
TupleAt(q) ==
  LET k == q - 1
      perRole == Len(RunLocations) * PAGES_PER_QUERY
  IN [role |-> ROLE_KEYWORDS[(k \div perRole) + 1],
      loc |-> RunLocations[((k % perRole) \div PAGES_PER_QUERY) + 1],
      page |-> (k % PAGES_PER_QUERY) + 1]

text_blob(job) ==
  Join(<<" ">>, <<job.title, job.description, job.company, job.location>>)

\* the four filters of the item loop, in the code's order
PassesFilters(job, nowTicks) ==
  IF ~role_ok(text_blob(job)) THEN FALSE
  ELSE IF ~skills_ok(text_blob(job)) THEN FALSE
  ELSE IF ~experience_ok(text_blob(job)) THEN FALSE
  ELSE posted_recent(job.posted_at_utc, MAX_POST_AGE_HOURS, nowTicks)

RECURSIVE CollectItems(_, _, _)
\* for item in items: parse, filter, collected.append(job)
CollectItems(collected, items, nowTicks) ==
  IF items = <<>> THEN collected
  ELSE LET job == parse_jsearch_item(Head(items))
       IN CollectItems(IF PassesFilters(job, nowTicks) THEN Append(collected, job)
                       ELSE collected,
                       Tail(items), nowTicks)

\* j.get("external_id") or (title, company, location, url); a str key never
\* equals a tuple key
DedupKey(j) ==
  IF Truthy(j.external_id) THEN [k |-> "str", v |-> <<j.external_id>>]
  ELSE [k |-> "tuple", v |-> <<j.title, j.company, j.location, j.url>>]

RECURSIVE DictPut(_, _, _)
\* unique[key] = j on a dict kept as the sequence of its (key, value) pairs in
\* insertion order
DictPut(d, key, j) ==
  IF d = <<>> THEN << [key |-> key, val |-> j] >>
  ELSE IF Head(d).key = key THEN << [key |-> key, val |-> j] >> \o Tail(d)
  ELSE << Head(d) >> \o DictPut(Tail(d), key, j)

RECURSIVE UniqueDict(_, _)
UniqueDict(d, collected) ==
  IF collected = <<>> THEN d
  ELSE UniqueDict(DictPut(d, DedupKey(Head(collected)), Head(collected)),
                  Tail(collected))

\* save_jobs(conn, collected): no de-duplication
unique_jobs_NoDedup(collected) == collected

\* unique_jobs = list(unique.values())
unique_jobs(collected) ==
  LET d == UniqueDict(<<>>, collected) IN [i \in 1..Len(d) |-> d[i].val]

\* ------------------------------------------------------------------- state
VARIABLES
  now,                \* the wall clock, in ticks
  db,                 \* the rows of table jobs in the file DB_PATH
  SMTP_HOST,          \* the configured mail host ("" when unset)
  mainpc,             \* where main() is: boot, first_run, scheduling, exited, crashed
  run,                \* run[s]: the invocation of search_and_notify on thread slot s
  openConns           \* sqlite3 connections open in the process

vars == <<now, db, SMTP_HOST, mainpc, run, openConns>>

Slots == 1..NumSlots

\* the locals of one invocation of search_and_notify
IdleRun ==
  [pc |-> "idle", thread |-> "none", conn |-> FALSE, qi |-> 0,
   collected |-> <<>>, anyFail |-> FALSE, batch |-> <<>>, rowsBefore |-> -1,
   inserted |-> 0, since_ts |-> -1, rows |-> <<>>, sendCalls |-> 0,
   send |-> "none",
   caught |-> FALSE]

Active == { s \in Slots : run[s].pc # "idle" }
\* the instances of the job APScheduler counts as running
Instances == { s \in Slots : run[s].thread = "worker" }
FreeSlot == CHOOSE s \in Slots : run[s].pc = "idle" /\ \A t \in Slots : run[t].pc = "idle" => s <= t

T0Ticks == T0 * TicksPerSecond
TicksPerHour == SecondsPerHour * TicksPerSecond

Init ==
  /\ now = T0Ticks
  /\ db = <<>>
  /\ SMTP_HOST \in {<<>>, <<"h">>}
  /\ mainpc = "boot"
  /\ run = [s \in Slots |-> IdleRun]
  /\ openConns = 0

\* ------------------------------------------------------- search_and_notify
\* the handler re-raises
TopLevelHandler_Reraises(r) == [r EXCEPT !.pc = "raised"]

\* except Exception as e: logging.error(...); traceback.print_exc()
TopLevelHandler(r) == [r EXCEPT !.pc = "done", !.caught = TRUE]

\* conn = init_db(DB_PATH); collected = []; ok: whether init_db returns
BeginRun(thread, ok) ==
  IF ok THEN [IdleRun EXCEPT !.pc = "fetch", !.thread = thread, !.conn = TRUE, !.qi = 1]
  ELSE TopLevelHandler([IdleRun EXCEPT !.thread = thread])

Start(s, thread) ==
  \E ok \in BOOLEAN :
    /\ run' = [run EXCEPT ![s] = BeginRun(thread, ok)]
    /\ openConns' = IF ok THEN openConns + 1 ELSE openConns

\* what jsearch_query does: raise HTTPError, raise something else, or return
EmptyBody == [data |-> <<>>, jobs |-> <<>>]
QueryOutcomes ==
  { [status |-> "HTTPError", body |-> EmptyBody],
    [status |-> "Exception", body |-> EmptyBody] }
  \cup { [status |-> "ok", body |-> b] : b \in Responses }

\* the loops' next iteration; after the last tuple the code goes on to persist
NextTuple(r) ==
  [r EXCEPT !.qi = r.qi + 1,
            !.pc = IF r.qi + 1 > NumTuples THEN "persist" ELSE "fetch"]

\* no try around the query: the exception reaches the handler of the run
QueryFailed_Aborts(r) == TopLevelHandler([r EXCEPT !.anyFail = TRUE])

\* except requests.HTTPError / except Exception around one query: log, go on
QueryFailed(r) == NextTuple([r EXCEPT !.anyFail = TRUE])

\* one iteration of the page loop
QueryStep(r, out, nowTicks) ==
  IF out.status = "ok"
  THEN NextTuple([r EXCEPT !.collected = CollectItems(r.collected, ItemsOf(out.body), nowTicks)])
  ELSE QueryFailed(r)

Query(s) ==
  /\ run[s].pc = "fetch"
  /\ \E out \in QueryOutcomes :
       run' = [run EXCEPT ![s] = QueryStep(run[s], out, now)]
  /\ UNCHANGED <<now, db, SMTP_HOST, mainpc, openConns>>

\* unique_jobs, save_jobs and its commit; ok: whether the commit succeeds.
\* collected is not read after this step and is dropped from the state.
Persist(s) ==
  /\ run[s].pc = "persist"
  /\ LET batch == unique_jobs(run[s].collected)
     IN \E ok \in BOOLEAN, bad \in SUBSET (1..Len(batch)) :
          LET res == save_jobs(db, batch, now, bad)
          IN IF ok
             THEN /\ db' = res.table
                  /\ run' = [run EXCEPT ![s] =
                       [run[s] EXCEPT !.pc = "digest", !.batch = batch,
                                      !.collected = <<>>,
                                      !.rowsBefore = Len(db),
                                      !.inserted = res.inserted]]
             ELSE /\ bad = {}
                  /\ db' = db
                  /\ run' = [run EXCEPT ![s] =
                       TopLevelHandler([run[s] EXCEPT !.batch = batch,
                                                      !.collected = <<>>])]
  /\ UNCHANGED <<now, SMTP_HOST, mainpc, openConns>>

\* send_email: no host, delivered, or smtplib raises
SendOutcomes(host) == IF host = <<>> THEN {"skipped"} ELSE {"delivered", "failed"}

\* render and send without the test of rows
Notify_Always(r, outcome) ==
  LET called == [r EXCEPT !.sendCalls = r.sendCalls + 1, !.send = outcome]
  IN IF outcome = "failed" THEN TopLevelHandler(called)
     ELSE [called EXCEPT !.pc = "done"]

\* if rows: render_email_html, send_email; else: nothing to send
Notify(r, outcome) ==
  IF r.rows # <<>>
  THEN LET called == [r EXCEPT !.sendCalls = r.sendCalls + 1, !.send = outcome]
       IN IF outcome = "failed" THEN TopLevelHandler(called)
          ELSE [called EXCEPT !.pc = "done"]
  ELSE [r EXCEPT !.pc = "done"]

\* since_ts, fetch_unsent_jobs_since, the notification; ok: whether the
\* SELECT succeeds
Digest(s) ==
  /\ run[s].pc = "digest"
  /\ \E ok \in BOOLEAN :
       IF ok
       THEN \E rows \in fetch_unsent_jobs_since(db, SinceTs(now)),
               outcome \in SendOutcomes(SMTP_HOST) :
              run' = [run EXCEPT ![s] =
                Notify([run[s] EXCEPT !.since_ts = SinceTs(now), !.rows = rows],
                       outcome)]
       ELSE run' = [run EXCEPT ![s] =
              TopLevelHandler([run[s] EXCEPT !.since_ts = SinceTs(now)])]
  /\ UNCHANGED <<now, db, SMTP_HOST, mainpc, openConns>>

\* search_and_notify is left: by return, or (pc = "raised") by an exception.
\* In main() the return leads to scheduler.start() and add_job; an exception
\* there ends the process. On a worker thread APScheduler logs either.
Return(s) ==
  /\ run[s].pc \in {"done", "raised"}
  /\ run' = [run EXCEPT ![s] = IdleRun]
  /\ mainpc' = IF run[s].thread # "main" THEN mainpc
               ELSE IF run[s].pc = "raised" THEN "crashed" ELSE "scheduling"
  /\ openConns' = IF run[s].thread = "main" /\ run[s].pc = "raised" THEN 0
                  ELSE openConns
  /\ UNCHANGED <<now, db, SMTP_HOST>>

\* ------------------------------------------------------------------ main()
\* main(): the first run, on the main thread, before the scheduler exists
MainFirstRun ==
  /\ mainpc = "boot"
  /\ mainpc' = "first_run"
  /\ Start(FreeSlot, "main")
  /\ UNCHANGED <<now, db, SMTP_HOST>>

\* the IntervalTrigger fires and the job may run (the model stops starting
\* runs once MaxConns connections are open)
TimerFire ==
  /\ mainpc = "scheduling"
  /\ openConns < MaxConns
  /\ Cardinality(Instances) < MaxInstances
  /\ Active # Slots
  /\ Start(FreeSlot, "worker")
  /\ UNCHANGED <<now, db, SMTP_HOST, mainpc>>

\* the IntervalTrigger fires while max_instances runs are in progress: the
\* scheduler logs a warning and skips this firing
TimerSkip ==
  /\ mainpc = "scheduling"
  /\ Cardinality(Instances) >= MaxInstances
  /\ UNCHANGED vars

\* a connection no live frame refers to is closed when the interpreter
\* finalizes it; the code itself never calls conn.close()
Finalize ==
  /\ openConns > Cardinality({ s \in Slots : run[s].conn })
  /\ openConns' = openConns - 1
  /\ UNCHANGED <<now, db, SMTP_HOST, mainpc, run>>

\* the process is ended from outside (KeyboardInterrupt, kill); the database
\* file stays
Kill ==
  /\ mainpc \in {"first_run", "scheduling"}
  /\ mainpc' = "exited"
  /\ run' = [s \in Slots |-> IdleRun]
  /\ openConns' = 0
  /\ UNCHANGED <<now, db, SMTP_HOST>>

\* the program is started again on the same DB_PATH
Boot ==
  /\ mainpc \in {"exited", "crashed"}
  /\ mainpc' = "boot"
  /\ UNCHANGED <<now, db, SMTP_HOST, run, openConns>>

\* ------------------------------------------------------------------- clock
\* Time passes between the reads of the clock; a run that has reached its
\* return reads it no more, so the model lets it return first.
Returning == \E s \in Slots : run[s].pc \in {"done", "raised"}

HoursElapsed == (now - T0Ticks) \div TicksPerHour
SubTicks == (now - T0Ticks) % TicksPerHour

Tick ==
  /\ SubTicks < MaxSubTicks
  /\ ~Returning
  /\ now' = now + 1
  /\ UNCHANGED <<db, SMTP_HOST, mainpc, run, openConns>>

HourPasses ==
  /\ HoursElapsed < MaxHours
  /\ ~Returning
  /\ now' = now + TicksPerHour
  /\ UNCHANGED <<db, SMTP_HOST, mainpc, run, openConns>>

Next ==
  \/ MainFirstRun
  \/ TimerFire
  \/ TimerSkip
  \/ \E s \in Slots : Query(s)
  \/ \E s \in Slots : Persist(s)
  \/ \E s \in Slots : Digest(s)
  \/ \E s \in Slots : Return(s)
  \/ Finalize
  \/ Kill
  \/ Boot
  \/ Tick
  \/ HourPasses

Spec == Init /\ [][Next]_vars

\* A thread that is inside search_and_notify takes its next step (every
\* blocking call of a run has a timeout), main() begins its first run, and the
\* interval trigger keeps firing while the scheduler runs.
RunStep == \E s \in Slots : Query(s) \/ Persist(s) \/ Digest(s) \/ Return(s)
FairSpec ==
  Spec /\ WF_vars(RunStep) /\ WF_vars(MainFirstRun) /\ WF_vars(TimerFire)

\* ------------------------------------------------------------------ claims
\* the rows of the table that a job record maps to
SameTuple(a, b) ==
  a.title = b.title /\ a.company = b.company /\ a.location = b.location /\ a.url = b.url

\* C1: no two stored rows share (source, external_id) with a non-null
\* external_id, and no two stored rows share (title, company, location, url),
\* in every state the store reaches, restarts of the process included.
C1_Uniqueness ==
  \A i, j \in 1..Len(db) :
    i # j =>
      /\ ~(db[i].external_id # None /\ db[i].source = db[j].source
             /\ db[i].external_id = db[j].external_id)
      /\ ~SameTuple(db[i], db[j])

\* a run has just saved a batch one of whose jobs the fallback index
\* suppressed: the table holds another job with the same four fields
C1_Witness ==
  /\ Len(db) = 2
  /\ \E s \in Slots : \E k \in 1..Len(run[s].batch), i \in 1..Len(db) :
       /\ run[s].pc = "digest"
       /\ SameTuple(db[i], run[s].batch[k])
       /\ db[i].external_id # run[s].batch[k].external_id

\* the records the provider's items normalise to
JobUniverse == { parse_jsearch_item(it) : it \in {ItemA, ItemA2, ItemN, ItemF, ItemZ} }

\* whether the table holds a row that record j collides with on either index
Stored(table, j) ==
  \E i \in 1..Len(table) :
    \/ SameTuple(table[i], j)
    \/ (j.external_id # None /\ table[i].source = j.source
          /\ table[i].external_id = j.external_id)

\* C2: saving a record twice reports it inserted the first time (it is new to
\* the table) and not the second, leaves exactly one row for it and raises
\* nothing; a record the table already holds is never inserted; the count
\* save_jobs returns is the number of rows the call added.
C2_Idempotent ==
  /\ \A j \in JobUniverse :
       LET first == save_jobs(db, <<j>>, now, {})
           second == save_jobs(first.table, <<j>>, now, {})
       IN /\ first.inserted = IF Stored(db, j) THEN 0 ELSE 1
          /\ second.inserted = 0
          /\ second.table = first.table
          /\ Len(first.table) = Len(db) + first.inserted
          /\ ~Stored(db, j) =>
               Cardinality({ i \in 1..Len(second.table) : SameTuple(second.table[i], j) }) = 1
  /\ \A s \in Slots :
       run[s].pc \in {"digest", "done"} /\ run[s].rowsBefore >= 0
         => run[s].inserted = Len(db) - run[s].rowsBefore

\* a run saved a job that an earlier run had stored: nothing was inserted
C2_Witness ==
  \E s \in Slots, i \in 1..Len(db) :
    /\ run[s].pc = "digest"
    /\ Len(run[s].batch) = 1
    /\ SameTuple(db[i], run[s].batch[1])
    /\ db[i].external_id = run[s].batch[1].external_id
    /\ run[s].inserted = 0
    /\ run[s].rowsBefore = Len(db)

\* what the digest must be at clock nowTicks: the rows created at or after
\* now minus the interval (in whole seconds, as every timestamp of the store),
\* the newest postings first, at most MAX_RESULTS_PER_RUN of them
IsDigestOf(rows, table, nowTicks) ==
  LET W == { i \in 1..Len(table) :
               table[i].created_at_utc
                 >= NowSeconds(nowTicks) - RUN_EVERY_HOURS * SecondsPerHour }
  IN /\ Len(rows) = Min(Cardinality(W), MAX_RESULTS_PER_RUN)
     /\ \A a \in 1..(Len(rows) - 1) : rows[a].posted_at_utc >= rows[a + 1].posted_at_utc
     /\ \E f \in [1..Len(rows) -> W] :
          /\ \A a, b \in 1..Len(rows) : a # b => f[a] # f[b]
          /\ \A a \in 1..Len(rows) :
               /\ SameTuple(rows[a], table[f[a]])
               /\ rows[a].posted_at_utc = table[f[a]].posted_at_utc
          /\ \A i \in W : \A a \in 1..Len(rows) :
               (\A b \in 1..Len(rows) : f[b] # i)
                 => table[i].posted_at_utc <= rows[a].posted_at_utc

\* C3: the digest a run selects is exactly the stored rows with
\* created_at_utc >= now minus the run interval, ordered by posted_at_utc
\* descending and capped at the limit, whichever run inserted them.
C3_DigestWindow ==
  [][\A s \in Slots :
       (run[s].pc = "digest" /\ run'[s].pc = "done" /\ run'[s].since_ts >= 0
          /\ (run'[s].caught => run'[s].sendCalls > 0))
         => IsDigestOf(run'[s].rows, db, now)]_vars

\* a digest that holds a row stored by an earlier run and leaves out a row
\* that is older than the window
C3_Witness ==
  \E s \in Slots, i \in 1..Len(db) :
    /\ run[s].pc = "done"
    /\ run[s].rows # <<>>
    /\ run[s].inserted = 0
    /\ db[i].created_at_utc < run[s].since_ts

\* C4: a run hands a digest to the notifier, once, exactly when its window
\* query returned at least one row; with an empty window nothing is sent, as
\* in a run whose only filter-passing item duplicates a stored row that is
\* out of the window (inserted_count = 0, no mail).
C4_SendIffRows ==
  \A s \in Slots :
    run[s].pc = "done"
      => /\ run[s].sendCalls = IF run[s].rows # <<>> THEN 1 ELSE 0
         /\ run[s].rows = <<>> => run[s].send = "none"
         /\ (run[s].rowsBefore >= 0 /\ \A k \in 1..Len(run[s].batch) :
               \E i \in 1..run[s].rowsBefore : SameTuple(db[i], run[s].batch[k]))
              => run[s].inserted = 0

\* the run of the example: one passing item, already stored, out of the window
C4_Witness ==
  \E s \in Slots :
    /\ run[s].pc = "done" /\ ~run[s].caught
    /\ Len(run[s].batch) = 1
    /\ run[s].inserted = 0
    /\ run[s].since_ts >= 0
    /\ run[s].rows = <<>>
    /\ run[s].sendCalls = 0
    /\ \E i \in 1..Len(db) :
         SameTuple(db[i], run[s].batch[1]) /\ db[i].created_at_utc < run[s].since_ts

\* C5: no exception leaves search_and_notify (none ends main() either), every
\* run comes to its end whatever happens in it, and while the process is not
\* ended from outside the scheduler starts the next run.
C5_RunsGoOn ==
  /\ [](mainpc # "crashed" /\ \A s \in Slots : run[s].pc # "raised")
  /\ (Active # {}) ~> (Active = {})
  /\ (mainpc = "scheduling" /\ Active = {} /\ openConns < MaxConns)
       ~> (Active # {} \/ mainpc = "exited")

\* the mail transport raised in a scheduled run; the handler caught it
C5_Witness ==
  \E s \in Slots :
    /\ run[s].pc = "done" /\ run[s].caught /\ run[s].send = "failed"
    /\ run[s].thread = "worker"
    /\ mainpc = "scheduling"

\* C6: a failed query does not abort the run: every tuple of roles x
\* locations x pages is still queried and the run goes on to persist and
\* digest what the other queries collected.
C6_FailureIsolation ==
  \A s \in Slots :
    run[s].anyFail
      => /\ run[s].pc = "fetch" \/ run[s].qi = NumTuples + 1
         /\ run[s].pc = "fetch" => ~run[s].caught /\ run[s].qi <= NumTuples
         /\ run[s].pc = "done" /\ ~run[s].caught => run[s].since_ts >= 0

\* a run with a failed query inserted a job and sent its digest
C6_Witness ==
  \E s \in Slots :
    /\ run[s].anyFail
    /\ run[s].pc = "done"
    /\ run[s].inserted > 0
    /\ run[s].send = "delivered"

\* C7: at no time are two invocations of search_and_notify in progress.
C7_NoOverlap == Cardinality(Active) <= 1

\* the timer fires while a scheduled run is in progress
C7_Witness == ENABLED TimerSkip /\ \E s \in Slots : run[s].pc = "persist"

\* C8: when init_db fails in the run main() makes at start-up, the process
\* ends; it does not go on to the scheduling loop.
C8_StartupInitFatal ==
  [][\A s \in Slots :
       (run[s].thread = "main" /\ run[s].pc = "done" /\ ~run[s].conn)
         => mainpc' # "scheduling"]_vars

ClaimKey(j) ==
  IF j.external_id # None /\ j.external_id # <<>>
  THEN [k |-> "str", v |-> <<j.external_id>>]
  ELSE [k |-> "tuple", v |-> <<j.title, j.company, j.location, j.url>>]

\* C10: the batch handed to save_jobs holds no two items with the same key,
\* and exactly the keys of the filter-passing items.
C10_Dedup ==
  \A s \in Slots :
    /\ run[s].pc = "persist" =>
         LET c == run[s].collected
             u == unique_jobs(c)
         IN /\ \A a, b \in 1..Len(u) : a # b => ClaimKey(u[a]) # ClaimKey(u[b])
            /\ { ClaimKey(u[a]) : a \in 1..Len(u) } = { ClaimKey(c[a]) : a \in 1..Len(c) }
            /\ \A a \in 1..Len(u) : \E b \in 1..Len(c) : u[a] = c[b]
    /\ run[s].pc = "digest" =>
         \A a, b \in 1..Len(run[s].batch) :
           a # b => ClaimKey(run[s].batch[a]) # ClaimKey(run[s].batch[b])

\* both pages returned a job with the same external id, with different
\* titles: the two collected items collapse to one
C10_Witness ==
  \E s \in Slots :
    /\ run[s].pc = "persist"
    /\ Len(run[s].collected) = 2
    /\ run[s].collected[1] # run[s].collected[2]
    /\ Len(unique_jobs(run[s].collected)) = 1

====
